---- MODULE Spec2Model ----
(***************************************************************************)
(* tools/perf/page_sets/rendering/tough_canvas_cases.py                    *)
(*                                                                         *)
(* The ToughCanvasCasesPageSet story set: its constructor registers one    *)
(* ToughCanvasPage subclass instance per entry of page_classes, and the    *)
(* two callbacks of ToughCanvasPage (RunNavigateSteps, RunPageInteractions)*)
(* are driven, one story at a time, by the story runner.                   *)
(***************************************************************************)
EXTENDS Integers, Sequences, FiniteSets, TLC

\* ---------------------------------------------------------------- bounds
\* Number of times the story set is constructed.
MaxBuilds == 3
\* Number of polls after which the story runner's condition wait gives up.
Timeout == 2
\* Number of pages of one run the environment lets fail.
MaxFailures == 1

\* ------------------------------------------------- the page subclasses
\* Every subclass of ToughCanvasPage defined in the file.
PageClasses ==
  { "MicrosoftFirefliesPage",
    "GeoAPIsPage",
    "RunwayPage",
    "MicrosoftFishIETankPage",
    "MicrosoftSpeedReadingPage",
    "Kevs3DPage",
    "MegiDishPage",
    "ManInBluePage",
    "Mix10KPage",
    "CraftyMindPage",
    "ChipTunePage",
    "JarroDoversonPage",
    "EffectGamesPage",
    "SpielzeugzPage",
    "HakimPage",
    "MicrosoftSnowPage",
    "MicrosoftWorkerFountainsPage",
    "MicrosoftTweetMapPage",
    "MicrosoftVideoCityPage",
    "MicrosoftAsteroidBeltPage",
    "SmashCatPage",
    "BouncingBallsShadowPage",
    "BouncingBalls15Page",
    "CanvasFontCyclerPage",
    "CanvasAnimationNoClearPage",
    "CanvasToBlobPage",
    "ManyImagesPage",
    "CanvasArcPage",
    "CanvasLinesPage",
    "PutGetImageDataPage",
    "FillShapesPage",
    "StrokeShapesPage",
    "BouncingClippedRectanglesPage",
    "BouncingGradientCirclesPage",
    "BouncingSVGImagesPage",
    "BouncingPNGImagesPage" }
\* The copy-and-paste slip: RunwayPage keeps the BASE_NAME of the class above.
BASE_NAME_copy_paste(cls) ==
  CASE cls = "MicrosoftFirefliesPage" -> "microsoft_fireflies"
    [] cls = "GeoAPIsPage" -> "geo_apis"
    [] cls = "RunwayPage" -> "geo_apis"
    [] cls = "MicrosoftFishIETankPage" -> "microsoft_fish_ie_tank"
    [] cls = "MicrosoftSpeedReadingPage" -> "microsoft_speed_reading"
    [] cls = "Kevs3DPage" -> "kevs_3d"
    [] cls = "MegiDishPage" -> "megi_dish"
    [] cls = "ManInBluePage" -> "man_in_blue"
    [] cls = "Mix10KPage" -> "mix_10k"
    [] cls = "CraftyMindPage" -> "crafty_mind"
    [] cls = "ChipTunePage" -> "chip_tune"
    [] cls = "JarroDoversonPage" -> "jarro_doverson"
    [] cls = "EffectGamesPage" -> "effect_games"
    [] cls = "SpielzeugzPage" -> "spielzeugz"
    [] cls = "HakimPage" -> "hakim"
    [] cls = "MicrosoftSnowPage" -> "microsoft_snow"
    [] cls = "MicrosoftWorkerFountainsPage" -> "microsoft_worker_fountains"
    [] cls = "MicrosoftTweetMapPage" -> "microsoft_tweet_map"
    [] cls = "MicrosoftVideoCityPage" -> "microsoft_video_city"
    [] cls = "MicrosoftAsteroidBeltPage" -> "microsoft_asteroid_belt"
    [] cls = "SmashCatPage" -> "smash_cat"
    [] cls = "BouncingBallsShadowPage" -> "bouncing_balls_shadow"
    [] cls = "BouncingBalls15Page" -> "bouncing_balls_15"
    [] cls = "CanvasFontCyclerPage" -> "canvas_font_cycler"
    [] cls = "CanvasAnimationNoClearPage" -> "canvas_animation_no_clear"
    [] cls = "CanvasToBlobPage" -> "canvas_to_blob"
    [] cls = "ManyImagesPage" -> "many_images"
    [] cls = "CanvasArcPage" -> "canvas_arcs"
    [] cls = "CanvasLinesPage" -> "canvas_lines"
    [] cls = "PutGetImageDataPage" -> "put_get_image_data"
    [] cls = "FillShapesPage" -> "fill_shapes"
    [] cls = "StrokeShapesPage" -> "stroke_shapes"
    [] cls = "BouncingClippedRectanglesPage" -> "bouncing_clipped_rectangles"
    [] cls = "BouncingGradientCirclesPage" -> "bouncing_gradient_circles"
    [] cls = "BouncingSVGImagesPage" -> "bouncing_svg_images"
    [] cls = "BouncingPNGImagesPage" -> "bouncing_png_images"
\* BASE_NAME class attribute of each subclass.
BASE_NAME(cls) ==
  CASE cls = "MicrosoftFirefliesPage" -> "microsoft_fireflies"
    [] cls = "GeoAPIsPage" -> "geo_apis"
    [] cls = "RunwayPage" -> "runway"
    [] cls = "MicrosoftFishIETankPage" -> "microsoft_fish_ie_tank"
    [] cls = "MicrosoftSpeedReadingPage" -> "microsoft_speed_reading"
    [] cls = "Kevs3DPage" -> "kevs_3d"
    [] cls = "MegiDishPage" -> "megi_dish"
    [] cls = "ManInBluePage" -> "man_in_blue"
    [] cls = "Mix10KPage" -> "mix_10k"
    [] cls = "CraftyMindPage" -> "crafty_mind"
    [] cls = "ChipTunePage" -> "chip_tune"
    [] cls = "JarroDoversonPage" -> "jarro_doverson"
    [] cls = "EffectGamesPage" -> "effect_games"
    [] cls = "SpielzeugzPage" -> "spielzeugz"
    [] cls = "HakimPage" -> "hakim"
    [] cls = "MicrosoftSnowPage" -> "microsoft_snow"
    [] cls = "MicrosoftWorkerFountainsPage" -> "microsoft_worker_fountains"
    [] cls = "MicrosoftTweetMapPage" -> "microsoft_tweet_map"
    [] cls = "MicrosoftVideoCityPage" -> "microsoft_video_city"
    [] cls = "MicrosoftAsteroidBeltPage" -> "microsoft_asteroid_belt"
    [] cls = "SmashCatPage" -> "smash_cat"
    [] cls = "BouncingBallsShadowPage" -> "bouncing_balls_shadow"
    [] cls = "BouncingBalls15Page" -> "bouncing_balls_15"
    [] cls = "CanvasFontCyclerPage" -> "canvas_font_cycler"
    [] cls = "CanvasAnimationNoClearPage" -> "canvas_animation_no_clear"
    [] cls = "CanvasToBlobPage" -> "canvas_to_blob"
    [] cls = "ManyImagesPage" -> "many_images"
    [] cls = "CanvasArcPage" -> "canvas_arcs"
    [] cls = "CanvasLinesPage" -> "canvas_lines"
    [] cls = "PutGetImageDataPage" -> "put_get_image_data"
    [] cls = "FillShapesPage" -> "fill_shapes"
    [] cls = "StrokeShapesPage" -> "stroke_shapes"
    [] cls = "BouncingClippedRectanglesPage" -> "bouncing_clipped_rectangles"
    [] cls = "BouncingGradientCirclesPage" -> "bouncing_gradient_circles"
    [] cls = "BouncingSVGImagesPage" -> "bouncing_svg_images"
    [] cls = "BouncingPNGImagesPage" -> "bouncing_png_images"
\* The scheme of one URL is dropped.
URL_no_scheme(cls) ==
  CASE cls = "MicrosoftFirefliesPage" ->
         "http://ie.microsoft.com/testdrive/Performance/Fireflies/Default.html"
    [] cls = "GeoAPIsPage" ->
         "http://geoapis.appspot.com/agdnZW9hcGlzchMLEgtFeGFtcGxlQ29kZRjh1wIM"
    [] cls = "RunwayPage" ->
         "http://runway.countlessprojects.com/prototype/performance_test.html"
    [] cls = "MicrosoftFishIETankPage" ->
         "http://ie.microsoft.com/testdrive/Performance/FishIETank/Default.html"
    [] cls = "MicrosoftSpeedReadingPage" ->
         "http://ie.microsoft.com/testdrive/Performance/SpeedReading/Default.html"
    [] cls = "Kevs3DPage" ->
         "http://www.kevs3d.co.uk/dev/canvask3d/k3d_test.html"
    [] cls = "MegiDishPage" ->
         "www.megidish.net/awjs/"
    [] cls = "ManInBluePage" ->
         "http://themaninblue.com/experiment/AnimationBenchmark/canvas/"
    [] cls = "Mix10KPage" ->
         "http://mix10k.visitmix.com/Entry/Details/169"
    [] cls = "CraftyMindPage" ->
         "http://www.craftymind.com/factory/guimark2/HTML5ChartingTest.html"
    [] cls = "ChipTunePage" ->
         "http://www.chiptune.com/starfield/starfield.html"
    [] cls = "JarroDoversonPage" ->
         "http://jarrodoverson.com/static/demos/particleSystem/"
    [] cls = "EffectGamesPage" ->
         "http://www.effectgames.com/demos/canvascycle/"
    [] cls = "SpielzeugzPage" ->
         "http://spielzeugz.de/html5/liquid-particles.html"
    [] cls = "HakimPage" ->
         "http://hakim.se/experiments/html5/magnetic/02/"
    [] cls = "MicrosoftSnowPage" ->
         "http://ie.microsoft.com/testdrive/Performance/LetItSnow/"
    [] cls = "MicrosoftWorkerFountainsPage" ->
         "http://ie.microsoft.com/testdrive/Graphics/WorkerFountains/Default.html"
    [] cls = "MicrosoftTweetMapPage" ->
         "http://ie.microsoft.com/testdrive/Graphics/TweetMap/Default.html"
    [] cls = "MicrosoftVideoCityPage" ->
         "http://ie.microsoft.com/testdrive/Graphics/VideoCity/Default.html"
    [] cls = "MicrosoftAsteroidBeltPage" ->
         "http://ie.microsoft.com/testdrive/Performance/AsteroidBelt/Default.html"
    [] cls = "SmashCatPage" ->
         "http://www.smashcat.org/av/canvas_test/"
    [] cls = "BouncingBallsShadowPage" ->
         "file://../tough_canvas_cases/canvas2d_balls_common/bouncing_balls.html?ball=image_with_shadow&back=image"
    [] cls = "BouncingBalls15Page" ->
         "file://../tough_canvas_cases/canvas2d_balls_common/bouncing_balls.html?ball=text&back=white&ball_count=15"
    [] cls = "CanvasFontCyclerPage" ->
         "file://../tough_canvas_cases/canvas-font-cycler.html"
    [] cls = "CanvasAnimationNoClearPage" ->
         "file://../tough_canvas_cases/canvas-animation-no-clear.html"
    [] cls = "CanvasToBlobPage" ->
         "file://../tough_canvas_cases/canvas_toBlob.html"
    [] cls = "ManyImagesPage" ->
         "file://../../../../chrome/test/data/perf/canvas_bench/many_images.html"
    [] cls = "CanvasArcPage" ->
         "file://../tough_canvas_cases/rendering_throughput/canvas_arcs.html"
    [] cls = "CanvasLinesPage" ->
         "file://../tough_canvas_cases/rendering_throughput/canvas_lines.html"
    [] cls = "PutGetImageDataPage" ->
         "file://../tough_canvas_cases/rendering_throughput/put_get_image_data.html"
    [] cls = "FillShapesPage" ->
         "file://../tough_canvas_cases/rendering_throughput/fill_shapes.html"
    [] cls = "StrokeShapesPage" ->
         "file://../tough_canvas_cases/rendering_throughput/stroke_shapes.html"
    [] cls = "BouncingClippedRectanglesPage" ->
         "file://../tough_canvas_cases/rendering_throughput/bouncing_clipped_rectangles.html"
    [] cls = "BouncingGradientCirclesPage" ->
         "file://../tough_canvas_cases/rendering_throughput/bouncing_gradient_circles.html"
    [] cls = "BouncingSVGImagesPage" ->
         "file://../tough_canvas_cases/rendering_throughput/bouncing_svg_images.html"
    [] cls = "BouncingPNGImagesPage" ->
         "file://../tough_canvas_cases/rendering_throughput/bouncing_png_images.html"
\* URL class attribute of each subclass.
URL(cls) ==
  CASE cls = "MicrosoftFirefliesPage" ->
         "http://ie.microsoft.com/testdrive/Performance/Fireflies/Default.html"
    [] cls = "GeoAPIsPage" ->
         "http://geoapis.appspot.com/agdnZW9hcGlzchMLEgtFeGFtcGxlQ29kZRjh1wIM"
    [] cls = "RunwayPage" ->
         "http://runway.countlessprojects.com/prototype/performance_test.html"
    [] cls = "MicrosoftFishIETankPage" ->
         "http://ie.microsoft.com/testdrive/Performance/FishIETank/Default.html"
    [] cls = "MicrosoftSpeedReadingPage" ->
         "http://ie.microsoft.com/testdrive/Performance/SpeedReading/Default.html"
    [] cls = "Kevs3DPage" ->
         "http://www.kevs3d.co.uk/dev/canvask3d/k3d_test.html"
    [] cls = "MegiDishPage" ->
         "http://www.megidish.net/awjs/"
    [] cls = "ManInBluePage" ->
         "http://themaninblue.com/experiment/AnimationBenchmark/canvas/"
    [] cls = "Mix10KPage" ->
         "http://mix10k.visitmix.com/Entry/Details/169"
    [] cls = "CraftyMindPage" ->
         "http://www.craftymind.com/factory/guimark2/HTML5ChartingTest.html"
    [] cls = "ChipTunePage" ->
         "http://www.chiptune.com/starfield/starfield.html"
    [] cls = "JarroDoversonPage" ->
         "http://jarrodoverson.com/static/demos/particleSystem/"
    [] cls = "EffectGamesPage" ->
         "http://www.effectgames.com/demos/canvascycle/"
    [] cls = "SpielzeugzPage" ->
         "http://spielzeugz.de/html5/liquid-particles.html"
    [] cls = "HakimPage" ->
         "http://hakim.se/experiments/html5/magnetic/02/"
    [] cls = "MicrosoftSnowPage" ->
         "http://ie.microsoft.com/testdrive/Performance/LetItSnow/"
    [] cls = "MicrosoftWorkerFountainsPage" ->
         "http://ie.microsoft.com/testdrive/Graphics/WorkerFountains/Default.html"
    [] cls = "MicrosoftTweetMapPage" ->
         "http://ie.microsoft.com/testdrive/Graphics/TweetMap/Default.html"
    [] cls = "MicrosoftVideoCityPage" ->
         "http://ie.microsoft.com/testdrive/Graphics/VideoCity/Default.html"
    [] cls = "MicrosoftAsteroidBeltPage" ->
         "http://ie.microsoft.com/testdrive/Performance/AsteroidBelt/Default.html"
    [] cls = "SmashCatPage" ->
         "http://www.smashcat.org/av/canvas_test/"
    [] cls = "BouncingBallsShadowPage" ->
         "file://../tough_canvas_cases/canvas2d_balls_common/bouncing_balls.html?ball=image_with_shadow&back=image"
    [] cls = "BouncingBalls15Page" ->
         "file://../tough_canvas_cases/canvas2d_balls_common/bouncing_balls.html?ball=text&back=white&ball_count=15"
    [] cls = "CanvasFontCyclerPage" ->
         "file://../tough_canvas_cases/canvas-font-cycler.html"
    [] cls = "CanvasAnimationNoClearPage" ->
         "file://../tough_canvas_cases/canvas-animation-no-clear.html"
    [] cls = "CanvasToBlobPage" ->
         "file://../tough_canvas_cases/canvas_toBlob.html"
    [] cls = "ManyImagesPage" ->
         "file://../../../../chrome/test/data/perf/canvas_bench/many_images.html"
    [] cls = "CanvasArcPage" ->
         "file://../tough_canvas_cases/rendering_throughput/canvas_arcs.html"
    [] cls = "CanvasLinesPage" ->
         "file://../tough_canvas_cases/rendering_throughput/canvas_lines.html"
    [] cls = "PutGetImageDataPage" ->
         "file://../tough_canvas_cases/rendering_throughput/put_get_image_data.html"
    [] cls = "FillShapesPage" ->
         "file://../tough_canvas_cases/rendering_throughput/fill_shapes.html"
    [] cls = "StrokeShapesPage" ->
         "file://../tough_canvas_cases/rendering_throughput/stroke_shapes.html"
    [] cls = "BouncingClippedRectanglesPage" ->
         "file://../tough_canvas_cases/rendering_throughput/bouncing_clipped_rectangles.html"
    [] cls = "BouncingGradientCirclesPage" ->
         "file://../tough_canvas_cases/rendering_throughput/bouncing_gradient_circles.html"
    [] cls = "BouncingSVGImagesPage" ->
         "file://../tough_canvas_cases/rendering_throughput/bouncing_svg_images.html"
    [] cls = "BouncingPNGImagesPage" ->
         "file://../tough_canvas_cases/rendering_throughput/bouncing_png_images.html"
\* The local list page_classes of ToughCanvasCasesPageSet.__init__.
page_classes ==
  << "GeoAPIsPage",
     "RunwayPage",
     "MicrosoftFishIETankPage",
     "MicrosoftSpeedReadingPage",
     "Kevs3DPage",
     "MegiDishPage",
     "ManInBluePage",
     "Mix10KPage",
     "CraftyMindPage",
     "ChipTunePage",
     "JarroDoversonPage",
     "EffectGamesPage",
     "SpielzeugzPage",
     "HakimPage",
     "MicrosoftSnowPage",
     "MicrosoftWorkerFountainsPage",
     "MicrosoftTweetMapPage",
     "MicrosoftVideoCityPage",
     "MicrosoftAsteroidBeltPage",
     "SmashCatPage",
     "BouncingBallsShadowPage",
     "BouncingBalls15Page",
     "CanvasFontCyclerPage",
     "CanvasAnimationNoClearPage",
     "CanvasToBlobPage",
     "ManyImagesPage",
     "CanvasArcPage",
     "CanvasLinesPage",
     "PutGetImageDataPage",
     "FillShapesPage",
     "StrokeShapesPage",
     "BouncingClippedRectanglesPage",
     "BouncingGradientCirclesPage",
     "BouncingSVGImagesPage",
     "BouncingPNGImagesPage" >>


\* ------------------------------------------------------------- the state
VARIABLES
  stories,     \* stories[c]: the _stories list of story set c, in order
  built,       \* number of story sets whose constructor has returned
  loop_i,      \* 0: no constructor running; else index of the next page_class
  next_id,     \* identity of the next object constructed
  run_set,     \* story set the runner is running (0: none yet)
  run_idx,     \* index in stories[run_set] of the story being run
  pc,          \* position of the runner inside the current story
  elapsed,     \* polls the current condition wait has slept through
  ready_at,    \* poll from which the loaded page reports readyState complete
  events,      \* what the action_runner was asked to do for this story
  open,        \* labels of the interaction records currently open
  exc,         \* exception in flight, "none" when there is none
  attempts,    \* times an interaction record was opened for this story
  results      \* per-story results of the run, in run order

vars == << stories, built, loop_i, next_id, run_set, run_idx, pc, elapsed,
           ready_at, events, open, exc, attempts, results >>

build_vars == << stories, built, loop_i, next_id >>
run_vars == << run_set, run_idx, pc, elapsed, ready_at, events, open, exc,
               attempts, results >>

\* The page never reports readyState complete.
Never == -1

\* --------------------------------------------------- story construction
\* RenderingStory.__init__: name is BASE_NAME + name_suffix, url is URL.
RenderingStory_init(id, cls, page_set, state_class, name_suffix, browser_args) ==
  [ id |-> id,
    cls |-> cls,
    page_set |-> page_set,
    name |-> BASE_NAME(cls) \o name_suffix,
    url |-> URL(cls),
    shared_page_state_class |-> state_class,
    extra_browser_args |-> browser_args ]

\* The page_set argument is replaced by a module-level story set.
ToughCanvasPage_init_shared_set(id, cls, page_set) ==
  RenderingStory_init(id, cls, 1, "SharedPageState", "", "None")

\* ToughCanvasPage.__init__ with its default arguments, as page_class(self).
ToughCanvasPage_init(id, cls, page_set) ==
  RenderingStory_init(id, cls, page_set, "SharedPageState", "", "None")

\* StorySet.AddStory: the story goes at the end of the list.
AddStory(c, s) ==
  stories' = [stories EXCEPT ![c] = Append(@, s)]

\* The story set under construction.
self == built + 1

\* The disabled registration of line 240 is live again.
StorySet_init_begin_fireflies ==
  /\ loop_i = 0
  /\ run_set = 0
  /\ built < MaxBuilds
  /\ stories' = [stories EXCEPT ![self] =
                   << ToughCanvasPage_init(next_id, "MicrosoftFirefliesPage",
                                           self) >>]
  /\ next_id' = next_id + 1
  /\ loop_i' = 1
  /\ UNCHANGED << built, run_vars >>

\* ToughCanvasCasesPageSet.__init__ up to the loop: the base constructor
\* leaves an empty story list; MicrosoftFirefliesPage is not registered.
StorySet_init_begin ==
  /\ loop_i = 0
  /\ run_set = 0
  /\ built < MaxBuilds
  /\ stories' = [stories EXCEPT ![self] = << >>]
  /\ loop_i' = 1
  /\ UNCHANGED << built, next_id, run_vars >>

\* The story is put in front of the list instead of at its end.
StorySet_init_loop_prepend ==
  /\ loop_i \in 1..Len(page_classes)
  /\ stories' = [stories EXCEPT ![self] =
        << ToughCanvasPage_init(next_id, page_classes[loop_i], self) >> \o @]
  /\ next_id' = next_id + 1
  /\ loop_i' = loop_i + 1
  /\ UNCHANGED << built, run_vars >>

\* One iteration of: for page_class in page_classes:
\*                     self.AddStory(page_class(self))
StorySet_init_loop ==
  /\ loop_i \in 1..Len(page_classes)
  /\ AddStory(self, ToughCanvasPage_init(next_id, page_classes[loop_i], self))
  /\ next_id' = next_id + 1
  /\ loop_i' = loop_i + 1
  /\ UNCHANGED << built, run_vars >>

\* The loop is exhausted and the constructor returns.
StorySet_init_return ==
  /\ loop_i = Len(page_classes) + 1
  /\ built' = built + 1
  /\ loop_i' = 0
  /\ UNCHANGED << stories, next_id, run_vars >>

\* ------------------------------------------------------ the story runner
\* The story whose callbacks are running.
CurStory == stories[run_set][run_idx]

\* One request made to the action_runner, with the interaction records
\* open when it was made.
Ev(kind, arg, seconds) ==
  [kind |-> kind, arg |-> arg, seconds |-> seconds, open |-> open]

\* Pages of this run already reported as failed.
Failures ==
  Cardinality({i \in 1..Len(results) : results[i].status = "failed"})

\* The runner takes a constructed story set and starts with its first story.
StoryRunner_start ==
  /\ run_set = 0
  /\ loop_i = 0
  /\ \E c \in 1..built : run_set' = c
  /\ run_idx' = 1
  /\ pc' = "navigate"
  /\ UNCHANGED << build_vars, elapsed, ready_at, events, open, exc, attempts,
                  results >>

\* The inherited RunNavigateSteps: action_runner.Navigate(self.url).  The
\* page loaded decides when, if ever, its readyState becomes complete.
Page_RunNavigateSteps ==
  /\ \E r \in (0..Timeout) \cup {Never} :
        /\ (r = Never) => (Failures < MaxFailures)
        /\ ready_at' = r
  /\ events' = Append(events, Ev("Navigate", CurStory.url, 0))
  /\ UNCHANGED << elapsed, open, exc, attempts >>

\* What the page answers to the JavaScript condition at this poll.
EvaluateJavaScript(condition) ==
  /\ condition = "document.readyState == 'complete'"
  /\ ready_at # Never
  /\ elapsed >= ready_at

\* action_runner.WaitForJavaScriptCondition: one poll of the condition.  It
\* returns once the condition is true, sleeps while the bound is not reached
\* and raises when it is.
WaitForJavaScriptCondition(condition) ==
  \/ /\ EvaluateJavaScript(condition)
     /\ events' = Append(events, Ev("ConditionTrue", condition, 0))
     /\ UNCHANGED << elapsed, exc >>
  \/ /\ ~EvaluateJavaScript(condition)
     /\ elapsed < Timeout
     /\ elapsed' = elapsed + 1
     /\ UNCHANGED << events, exc >>
  \/ /\ ~EvaluateJavaScript(condition)
     /\ elapsed >= Timeout
     /\ exc' = "NavigationTimeout"
     /\ UNCHANGED << events, elapsed >>

\* The wait is left out: the step returns as soon as the load was issued.
RunNavigateSteps_no_wait ==
  \/ /\ pc = "navigate"
     /\ Page_RunNavigateSteps
     /\ pc' = "wait_ready"
     /\ UNCHANGED << build_vars, run_set, run_idx, results >>
  \/ /\ pc = "wait_ready"
     /\ pc' = "interactions"
     /\ UNCHANGED << build_vars, run_set, run_idx, results, elapsed, ready_at,
                     events, open, exc, attempts >>

\* The timeout is caught and the wait started again.
RunNavigateSteps_catch_and_rewait ==
  \/ /\ pc = "navigate"
     /\ Page_RunNavigateSteps
     /\ pc' = "wait_ready"
     /\ UNCHANGED << build_vars, run_set, run_idx, results >>
  \/ /\ pc = "wait_ready"
     /\ \/ /\ EvaluateJavaScript("document.readyState == 'complete'")
           /\ events' = Append(events,
                 Ev("ConditionTrue", "document.readyState == 'complete'", 0))
           /\ pc' = "interactions"
           /\ UNCHANGED elapsed
        \/ /\ ~EvaluateJavaScript("document.readyState == 'complete'")
           /\ elapsed' = IF elapsed < Timeout THEN elapsed + 1 ELSE 0
           /\ pc' = "wait_ready"
           /\ UNCHANGED events
     /\ UNCHANGED << build_vars, run_set, run_idx, results, ready_at, open,
                     exc, attempts >>

\* The condition string is misspelt, so the page never satisfies it.
RunNavigateSteps_misspelt_condition ==
  \/ /\ pc = "navigate"
     /\ Page_RunNavigateSteps
     /\ pc' = "wait_ready"
     /\ UNCHANGED << build_vars, run_set, run_idx, results >>
  \/ /\ pc = "wait_ready"
     /\ WaitForJavaScriptCondition("document.readyState == 'completed'")
     /\ pc' = IF exc' # "none" THEN "page_end"
              ELSE IF Len(events') > Len(events) THEN "interactions"
              ELSE "wait_ready"
     /\ UNCHANGED << build_vars, run_set, run_idx, results, ready_at, open,
                     attempts >>

\* ToughCanvasPage.RunNavigateSteps: the inherited navigation, then the wait
\* for document.readyState == 'complete'.  Nothing catches what the wait
\* raises.
RunNavigateSteps ==
  \/ /\ pc = "navigate"
     /\ Page_RunNavigateSteps
     /\ pc' = "wait_ready"
     /\ UNCHANGED << build_vars, run_set, run_idx, results >>
  \/ /\ pc = "wait_ready"
     /\ WaitForJavaScriptCondition("document.readyState == 'complete'")
     /\ pc' = IF exc' # "none" THEN "page_end"
              ELSE IF Len(events') > Len(events) THEN "interactions"
              ELSE "wait_ready"
     /\ UNCHANGED << build_vars, run_set, run_idx, results, ready_at, open,
                     attempts >>

\* action_runner.CreateInteraction(label), entered: the record is opened.
CreateInteraction_enter(label) ==
  /\ events' = Append(events, Ev("Begin", label, 0))
  /\ open' = open \cup {label}
  /\ attempts' = attempts + 1
  /\ UNCHANGED exc

\* action_runner.Wait(seconds): sleeps, or fails when the browser is lost.
Wait(seconds) ==
  /\ events' = Append(events, Ev("Wait", "", seconds))
  /\ \/ exc' = "none"
     \/ /\ Failures < MaxFailures
        /\ exc' = "InteractionFailure"
  /\ UNCHANGED << open, attempts >>

\* Leaving the with block: the record is closed whether or not the body
\* raised, and what the body raised stays in flight.
Interaction_exit(label) ==
  /\ events' = Append(events, Ev("End", label, 0))
  /\ open' = open \ {label}
  /\ UNCHANGED << exc, attempts >>

\* The wait is written after the with block instead of inside it.
RunPageInteractions_wait_outside ==
  /\ \/ /\ pc = "interactions"
        /\ CreateInteraction_enter("CanvasAnimation")
        /\ pc' = "exit_interaction"
     \/ /\ pc = "exit_interaction"
        /\ Interaction_exit("CanvasAnimation")
        /\ pc' = "in_interaction"
     \/ /\ pc = "in_interaction"
        /\ Wait(5)
        /\ pc' = "page_end"
  /\ UNCHANGED << build_vars, run_set, run_idx, results, elapsed, ready_at >>

\* A failed body is swallowed and the interaction run once more.
RunPageInteractions_retry ==
  /\ \/ /\ pc = "interactions"
        /\ CreateInteraction_enter("CanvasAnimation")
        /\ pc' = "in_interaction"
     \/ /\ pc = "in_interaction"
        /\ Wait(5)
        /\ pc' = "exit_interaction"
     \/ /\ pc = "exit_interaction"
        /\ events' = Append(events, Ev("End", "CanvasAnimation", 0))
        /\ open' = open \ {"CanvasAnimation"}
        /\ exc' = IF attempts < 2 THEN "none" ELSE exc
        /\ pc' = IF exc # "none" /\ attempts < 2 THEN "interactions"
                 ELSE "page_end"
        /\ UNCHANGED attempts
  /\ UNCHANGED << build_vars, run_set, run_idx, results, elapsed, ready_at >>

\* ToughCanvasPage.RunPageInteractions:
\*   with action_runner.CreateInteraction('CanvasAnimation'):
\*     action_runner.Wait(5)
RunPageInteractions ==
  /\ \/ /\ pc = "interactions"
        /\ CreateInteraction_enter("CanvasAnimation")
        /\ pc' = "in_interaction"
     \/ /\ pc = "in_interaction"
        /\ Wait(5)
        /\ pc' = "exit_interaction"
     \/ /\ pc = "exit_interaction"
        /\ Interaction_exit("CanvasAnimation")
        /\ pc' = "page_end"
  /\ UNCHANGED << build_vars, run_set, run_idx, results, elapsed, ready_at >>

\* The runner records the result of the story and goes on with the next
\* one, whatever the result was.
StoryRunner_page_end ==
  /\ pc = "page_end"
  /\ results' = Append(results,
        [ name |-> CurStory.name,
          status |-> IF exc = "none" THEN "passed" ELSE "failed",
          error |-> exc ])
  /\ IF run_idx < Len(stories[run_set])
       THEN run_idx' = run_idx + 1 /\ pc' = "navigate"
       ELSE run_idx' = run_idx /\ pc' = "finished"
  /\ elapsed' = 0
  /\ ready_at' = 0
  /\ events' = << >>
  /\ exc' = "none"
  /\ attempts' = 0
  /\ UNCHANGED << build_vars, run_set, open >>

\* ------------------------------------------------------ specifications
\* Nothing is constructed yet and the runner has not started.
Init ==
  /\ stories = [c \in 1..MaxBuilds |-> << >>]
  /\ built = 0
  /\ loop_i = 0
  /\ next_id = 1
  /\ run_set = 0
  /\ run_idx = 0
  /\ pc = "idle"
  /\ elapsed = 0
  /\ ready_at = 0
  /\ events = << >>
  /\ open = {}
  /\ exc = "none"
  /\ attempts = 0
  /\ results = << >>

\* The constructor of ToughCanvasCasesPageSet, called up to MaxBuilds times.
Next ==
  \/ StorySet_init_begin
  \/ StorySet_init_loop
  \/ StorySet_init_return

Spec == Init /\ [][Next]_vars

\* The state the first call of the constructor leaves: story set 1 holds
\* page_class(self) for each page_class of page_classes, in that order.
RunInit ==
  /\ stories = [c \in 1..MaxBuilds |->
        IF c = 1
          THEN [i \in 1..Len(page_classes) |->
                  ToughCanvasPage_init(i, page_classes[i], 1)]
          ELSE << >>]
  /\ built = 1
  /\ loop_i = 0
  /\ next_id = Len(page_classes) + 1
  /\ run_set = 0
  /\ run_idx = 0
  /\ pc = "idle"
  /\ elapsed = 0
  /\ ready_at = 0
  /\ events = << >>
  /\ open = {}
  /\ exc = "none"
  /\ attempts = 0
  /\ results = << >>

\* The story runner, running the constructed story set one story at a time.
RunNext ==
  \/ StoryRunner_start
  \/ RunNavigateSteps
  \/ RunPageInteractions
  \/ StoryRunner_page_end

RunSpec == RunInit /\ [][RunNext]_vars

\* The runner's poll is a blocking call of a running thread: it goes on.
FairRunSpec == RunSpec /\ WF_vars(RunNavigateSteps)

\* ---------------------------------------------------------- properties
\* s begins with p.
StartsWith(s, p) ==
  /\ Len(s) >= Len(p)
  /\ SubSeq(s, 1, Len(p)) = p

\* Number of the three URL prefixes that s begins with.
PrefixCount(s) ==
  Cardinality({p \in {"http://", "https://", "file://"} : StartsWith(s, p)})

\* The requests of the current story that belong to the interaction.
IsInteractionEvent(e) == e.kind \in {"Begin", "Wait", "End"}
InteractionEvents == SelectSeq(events, IsInteractionEvent)

\* The navigation of the current story has returned normally.
NavigationReturned ==
  \/ pc \in {"interactions", "in_interaction", "exit_interaction"}
  \/ pc = "page_end" /\ exc # "NavigationTimeout"

\* C1: the story list of a constructed story set is page_classes, entry by
\* entry and in that order: 35 stories, the first geo_apis, the last
\* bouncing_png_images; while the loop runs the list is the prefix of
\* page_classes registered so far, so nothing is added, dropped or moved.
C1_CatalogIsPageClasses ==
  /\ Len(page_classes) = 35
  /\ \A c \in 1..built :
        /\ Len(stories[c]) = 35
        /\ \A i \in 1..35 : stories[c][i].cls = page_classes[i]
        /\ stories[c][1].name = "geo_apis"
        /\ stories[c][35].name = "bouncing_png_images"
  /\ loop_i > 0 =>
        /\ Len(stories[self]) = loop_i - 1
        /\ \A i \in 1..(loop_i - 1) : stories[self][i].cls = page_classes[i]

C1_Witness ==
  /\ built = 1
  /\ loop_i = 0
  /\ Len(stories[1]) = 35

\* C2: in every story set, every story has a non-empty name and no two
\* stories at different positions have the same name.
C2_NamesUniqueNonEmpty ==
  \A c \in 1..MaxBuilds :
    \A i \in 1..Len(stories[c]) :
      /\ stories[c][i].name # ""
      /\ \A j \in 1..Len(stories[c]) :
            i # j => stories[c][i].name # stories[c][j].name

C2_Witness ==
  /\ built >= 1
  /\ Len(stories[built]) = 35
  /\ stories[built][2].name = "runway"

\* The state RunInit describes is one the constructor reaches.
RunInitNotReached == ~RunInit

\* C3: the URL of every registered story, and the URL of a
\* MicrosoftFirefliesPage wherever it is constructed, is non-empty and
\* begins with exactly one of http://, https:// and file://.
C3_UrlsWellFormed ==
  /\ \A c \in 1..MaxBuilds :
       \A i \in 1..Len(stories[c]) :
         /\ stories[c][i].url # ""
         /\ PrefixCount(stories[c][i].url) = 1
  /\ LET s == ToughCanvasPage_init(next_id, "MicrosoftFirefliesPage", self)
     IN  s.url # "" /\ PrefixCount(s.url) = 1

C3_Witness ==
  /\ Len(stories[1]) = 35
  /\ StartsWith(stories[1][1].url, "http://")
  /\ StartsWith(stories[1][35].url, "file://")

\* C4: MicrosoftFirefliesPage is one of the page classes and constructing
\* it gives a story named microsoft_fireflies, but no story of any story
\* set has that name.
C4_FirefliesNotActive ==
  /\ "MicrosoftFirefliesPage" \in PageClasses
  /\ ToughCanvasPage_init(next_id, "MicrosoftFirefliesPage", self).name
        = "microsoft_fireflies"
  /\ \A c \in 1..MaxBuilds :
       \A i \in 1..Len(stories[c]) :
         stories[c][i].name # "microsoft_fireflies"

C4_Witness ==
  /\ built = MaxBuilds
  /\ loop_i = 0
  /\ \A c \in 1..MaxBuilds : Len(stories[c]) = Len(page_classes)

\* C5: every interaction record opened is labelled CanvasAnimation and is
\* opened while none is open; every wait lasts 5 seconds and happens while
\* exactly that record is open; and when the callbacks of a story have
\* returned without an exception, the interaction requests were exactly
\* open CanvasAnimation, wait 5, close CanvasAnimation.
C5_InteractionSequence ==
  /\ \A i \in 1..Len(events) :
        /\ events[i].kind = "Begin" =>
              events[i].arg = "CanvasAnimation" /\ events[i].open = {}
        /\ events[i].kind = "Wait" =>
              events[i].seconds = 5 /\ events[i].open = {"CanvasAnimation"}
  /\ (pc = "page_end" /\ exc = "none") =>
        /\ InteractionEvents =
              << [kind |-> "Begin", arg |-> "CanvasAnimation", seconds |-> 0,
                  open |-> {}],
                 [kind |-> "Wait", arg |-> "", seconds |-> 5,
                  open |-> {"CanvasAnimation"}],
                 [kind |-> "End", arg |-> "CanvasAnimation", seconds |-> 0,
                  open |-> {"CanvasAnimation"}] >>
        /\ open = {}

C5_Witness ==
  /\ pc = "page_end"
  /\ exc = "none"
  /\ run_idx = 21
  /\ Len(InteractionEvents) = 3

\* C6: while the step waits for readiness the load of the story's URL is
\* the only request made so far; and once the navigation has returned
\* normally, the load is followed by an observation of
\* document.readyState == 'complete' being true, made at a poll at which the
\* page was ready.
C6_NavigateThenWait ==
  /\ pc = "wait_ready" =>
        events = << [kind |-> "Navigate", arg |-> CurStory.url,
                     seconds |-> 0, open |-> {}] >>
  /\ NavigationReturned =>
        /\ Len(events) >= 2
        /\ events[1].kind = "Navigate"
        /\ events[1].arg = CurStory.url
        /\ events[2].kind = "ConditionTrue"
        /\ events[2].arg = "document.readyState == 'complete'"
        /\ ready_at # Never
        /\ elapsed >= ready_at

C6_Witness ==
  /\ pc = "interactions"
  /\ ready_at = 1
  /\ elapsed = 1

\* C7: the wait never sleeps through more polls than the bound; a wait on a
\* page that never becomes ready is left only by the NavigationTimeout
\* exception; and such a wait is always left that way.
C7_WaitIsTimeoutBounded ==
  /\ [](pc = "wait_ready" => elapsed <= Timeout)
  /\ [][(pc = "wait_ready" /\ ready_at = Never /\ pc' # "wait_ready")
          => (pc' = "page_end" /\ exc' = "NavigationTimeout")]_vars
  /\ ((pc = "wait_ready" /\ ready_at = Never)
          ~> (pc = "page_end" /\ exc = "NavigationTimeout"))

C7_Witness ==
  /\ pc = "page_end"
  /\ exc = "NavigationTimeout"
  /\ ready_at = Never
  /\ elapsed = Timeout

\* C8: in a run, every story before the current one has a result under its
\* own name, whatever the results before it were, and at the end every story
\* of the set has one; a story is marked failed exactly when its own
\* callbacks raised; every story starts with no exception in flight, no
\* elapsed wait and no request made; and NavigationTimeout is in flight only
\* for a story whose own page never became ready.
C8_FailuresAreIndependent ==
  /\ run_set # 0 =>
        /\ Len(results) = (IF pc = "finished" THEN run_idx ELSE run_idx - 1)
        /\ \A i \in 1..Len(results) :
              /\ results[i].name = stories[run_set][i].name
              /\ (results[i].status = "failed") = (results[i].error # "none")
              /\ (results[i].status = "passed") = (results[i].error = "none")
        /\ pc = "finished" => Len(results) = Len(stories[run_set])
  /\ pc = "navigate" =>
        exc = "none" /\ elapsed = 0 /\ events = << >> /\ open = {}
  /\ exc = "NavigationTimeout" =>
        pc = "page_end" /\ ready_at = Never /\ elapsed = Timeout

C8_Witness ==
  /\ pc = "finished"
  /\ Len(results) = 35
  /\ results[3].error = "NavigationTimeout"
  /\ \A i \in 4..35 : results[i].status = "passed"

\* C9: an interaction record is opened at most once per story; when the
\* body of the with block has raised, leaving the block closes the record,
\* keeps the exception in flight and hands the story back to the runner.
C9_FailedBodyClosesAndPropagates ==
  /\ [](attempts <= 1)
  /\ [](pc \in {"page_end", "navigate", "finished"} => open = {})
  /\ [][(pc = "exit_interaction" /\ exc # "none")
          => (pc' = "page_end" /\ exc' = exc /\ open' = {})]_vars

C9_Witness ==
  /\ pc = "page_end"
  /\ exc = "InteractionFailure"
  /\ open = {}
  /\ attempts = 1

\* Constructed story sets agree in names, URLs and order, hold disjoint story
\* objects, and every story names the story set that holds it as its page_set.
BuildsAgreeAndDisjoint ==
  /\ \A c1 \in 1..built : \A c2 \in 1..built :
        c1 # c2 =>
          /\ Len(stories[c1]) = Len(stories[c2])
          /\ \A i \in 1..Len(stories[c1]) :
                /\ stories[c1][i].name = stories[c2][i].name
                /\ stories[c1][i].url = stories[c2][i].url
          /\ \A i \in 1..Len(stories[c1]) : \A j \in 1..Len(stories[c2]) :
                stories[c1][i].id # stories[c2][j].id
  /\ \A c \in 1..MaxBuilds :
        \A i \in 1..Len(stories[c]) : stories[c][i].page_set = c

\* C10: two constructed story sets have the same names and the same URLs in
\* the same order, no story object belongs to both, every story of a story
\* set was constructed with that story set as its page_set, and constructing
\* another story set leaves the story sets already constructed as they were.
C10_BuildsEqualAndIndependent ==
  /\ []BuildsAgreeAndDisjoint
  /\ [][\A c \in 1..built : stories'[c] = stories[c]]_vars

C10_Witness ==
  /\ built = 2
  /\ stories[1][35].name = stories[2][35].name
  /\ stories[1][35].id # stories[2][35].id
====
